---- MODULE Spec2Model ----
(***************************************************************************)
(* Model of the xous-core kernel syscall layer (kernel/src/syscall.rs):    *)
(* send_message, receive_message, return_memory, return_scalar,            *)
(* return_scalar2 and the dispatcher arms MapMemory, UnmapMemory,          *)
(* IncreaseHeap, DecreaseHeap, SwitchTo, Yield and ReturnToParentI; and of *)
(* the log server's LogString (examples/log-server/src/log_string.rs).     *)
(* The server endpoint, the thread table and the memory manager are        *)
(* collaborators whose code is not in kernel/src/syscall.rs; they are      *)
(* modelled from their description in the design document.                 *)
(*                                                                         *)
(* Addresses and lengths are counted in pages (PAGE_SIZE bytes each), so a *)
(* 32-bit usize that is a page multiple is a page count modulo 2^20.       *)
(***************************************************************************)
EXTENDS Integers, Sequences, FiniteSets, TLC

VARIABLES
    baremetal,        \* cfg!(baremetal): the build, fixed at Init
    overflow_checks,  \* the build panics on integer overflow (debug) or wraps (release)
    panicked,         \* the kernel hit a panic (assert!, expect, overflow)
    thr,              \* thread table: state of every thread
    result,           \* saved result register of every thread
    queue,            \* per server: message queue (FIFO)
    parked,           \* per server: parked-receiver list
    outstanding,      \* per server: outstanding-sender table, idx -> record
    map,              \* per process: virtual page -> page-table entry
    conns,            \* per process: the servers it holds a connection to
    switchto_caller,  \* SWITCHTO_CALLER
    heap_size,        \* mem_heap_size of the process using the heap, in pages
    heap_pages,       \* the pages mapped or reserved around the heap
    mapped,           \* per process: pages installed by MapMemory, page -> use
    isr_return_pair,  \* arch::irq: the (pid, tid) an interrupt handler returns to
    log_string,       \* log server: the LogString over the message being written
    nsent,            \* number of TrySendMessage calls made (message ids)
    accepted,         \* history: ids accepted into the queue, in order
    delivered,        \* history: ids handed out of the queue by ReceiveMessage
    inflight,         \* history: ids of accepted sends that await a reply
    last              \* the last heap syscall and its result

vars == <<baremetal, overflow_checks, panicked, thr, result, queue, parked,
          outstanding, map, conns, switchto_caller, heap_size, heap_pages,
          mapped, isr_return_pair, log_string, nsent, accepted, delivered, inflight,
          last>>

ipcvars == <<thr, result, queue, parked, outstanding, map, conns,
             switchto_caller, nsent, accepted, delivered, inflight>>

heapvars == <<heap_size, heap_pages>>

-----------------------------------------------------------------------------
(* Bounds of the model *)

MaxSends == 3

(* Program constants *)

InitPid == 1

HostPid == InitPid + 1

ClientPid == InitPid + 2

Procs == {InitPid, HostPid, ClientPid}

Servers == {1}

ServerPid == [s \in Servers |-> HostPid]

Ppid == [p \in Procs |-> InitPid]

HostTids == {1}

\* A slot of the host's thread table with no thread in it until one is created.
SpareTids == {2}

ClientTids == {1, 2}

Threads ==
    {<<InitPid, 0>>} \cup ({HostPid} \X (HostTids \cup SpareTids)) \cup ({ClientPid} \X ClientTids)

VPages == {1, 2}

QueueCap == 2

MaxSlots == 2

Slots == 1..MaxSlots

None == [tag |-> "None"]

-----------------------------------------------------------------------------
(* Results and errors *)

Ok == [tag |-> "Ok"]

Err(e) == [tag |-> "Err", err |-> e]

ResumeProcess == [tag |-> "ResumeProcess"]

BlockedProcess == [tag |-> "BlockedProcess"]

MessageResult(env) == [tag |-> "Message", env |-> env]

Scalar1(a) == [tag |-> "Scalar1", a |-> a]

Scalar2(a, b) == [tag |-> "Scalar2", a |-> a, b |-> b]

IsErr(r) == r.tag = "Err"

-----------------------------------------------------------------------------
(* Messages *)

ScalarKinds == {"Scalar", "BlockingScalar"}

MemoryKinds == {"Move", "Borrow", "MutableBorrow"}

Kinds == ScalarKinds \cup MemoryKinds

ScalarArgs == <<1, 2, 3, 4>>

ScalarMsg(kind, id) == [kind |-> kind, id |-> id, args |-> ScalarArgs, addr |-> 0, len |-> 0]

MemoryMsg(kind, id, addr, len) == [kind |-> kind, id |-> id, args |-> <<>>, addr |-> addr, len |-> len]

Ranges == {r \in [addr : VPages, len : 1..Cardinality(VPages)] : r.addr + r.len - 1 \in VPages}

\* The regions a client sends: its upper page, or both pages.
ClientRanges == {r \in Ranges : r.addr + r.len - 1 = Cardinality(VPages)}

Messages(id) ==
    {ScalarMsg(k, id) : k \in ScalarKinds}
    \cup {MemoryMsg(k, id, r.addr, r.len) : k \in MemoryKinds, r \in ClientRanges}

is_blocking(msg) == msg.kind \in {"BlockingScalar", "Borrow", "MutableBorrow"}

IsMemory(msg) == msg.kind \in MemoryKinds

-----------------------------------------------------------------------------
(* The kernel state a handler works on, as one record *)

KState ==
    [thr |-> thr, result |-> result, queue |-> queue, parked |-> parked,
     outstanding |-> outstanding, map |-> map, conns |-> conns,
     sc |-> switchto_caller]

Done(r, s) == [ok |-> TRUE, err |-> "", val |-> r, s |-> s]

Fail(e, s) == [ok |-> FALSE, err |-> e, val |-> Err(e), s |-> s]

-----------------------------------------------------------------------------
(* Memory manager facade *)

NoPage == [frame |-> 0, w |-> FALSE, valid |-> FALSE]

PagesOf(addr, len) == {addr + i : i \in 0..(len - 1)}

Mapped(m, pid, v) == v \in VPages /\ m[pid][v].valid

FreeBases(m, pid, len) ==
    {b \in VPages : \A v \in PagesOf(b, len) : v \in VPages /\ m[pid][v] = NoPage}

LowestFree(m, pid, len) ==
    CHOOSE b \in FreeBases(m, pid, len) : \A c \in FreeBases(m, pid, len) : b <= c

\* Page-level move: the pages leave src_pid and appear in dst_pid.
send_memory(s, src_pid, src, dst_pid, len) ==
    IF \E v \in PagesOf(src, len) : ~Mapped(s.map, src_pid, v)
    THEN Fail("BadAddress", s)
    ELSE IF FreeBases(s.map, dst_pid, len) = {}
    THEN Fail("OutOfMemory", s)
    ELSE LET dst == LowestFree(s.map, dst_pid, len)
             m2 == [p \in Procs |-> [v \in VPages |->
                      IF p = src_pid /\ v \in PagesOf(src, len) THEN NoPage
                      ELSE IF p = dst_pid /\ v \in PagesOf(dst, len)
                           THEN s.map[src_pid][src + (v - dst)]
                      ELSE s.map[p][v]]]
         IN  Done(dst, [s EXCEPT !.map = m2])

\* Loan: the pages appear in dst_pid read-only or writable; the lender's
\* entries keep frame and permissions but are revoked (not valid) meanwhile.
lend_memory(s, src_pid, src, dst_pid, len, mutable) ==
    IF \E v \in PagesOf(src, len) : ~Mapped(s.map, src_pid, v)
    THEN Fail("BadAddress", s)
    ELSE IF FreeBases(s.map, dst_pid, len) = {}
    THEN Fail("OutOfMemory", s)
    ELSE LET dst == LowestFree(s.map, dst_pid, len)
             m2 == [p \in Procs |-> [v \in VPages |->
                      IF p = src_pid /\ v \in PagesOf(src, len)
                      THEN [s.map[p][v] EXCEPT !.valid = FALSE]
                      ELSE IF p = dst_pid /\ v \in PagesOf(dst, len)
                           THEN [frame |-> s.map[src_pid][src + (v - dst)].frame,
                                 w |-> mutable, valid |-> TRUE]
                      ELSE s.map[p][v]]]
         IN  Done(dst, [s EXCEPT !.map = m2])

\* Reverse of a loan: the server loses the pages, the client's entries are
\* valid again at their original address with their original permissions.
mm_return_memory(s, server_pid, server_addr, client_pid, client_addr, len) ==
    IF \/ \E v \in PagesOf(server_addr, len) : ~Mapped(s.map, server_pid, v)
       \/ \E v \in PagesOf(client_addr, len) :
             v \notin VPages \/ s.map[client_pid][v].frame = 0 \/ s.map[client_pid][v].valid
    THEN Fail("BadAddress", s)
    ELSE LET m2 == [p \in Procs |-> [v \in VPages |->
                      IF p = server_pid /\ v \in PagesOf(server_addr, len) THEN NoPage
                      ELSE IF p = client_pid /\ v \in PagesOf(client_addr, len)
                           THEN [s.map[p][v] EXCEPT !.valid = TRUE]
                      ELSE s.map[p][v]]]
         IN  Done(0, [s EXCEPT !.map = m2])

\* Tear down one page of pid; a page that is not mapped reports an error.
unmap_page(s, pid, v) ==
    IF Mapped(s.map, pid, v)
    THEN Done(0, [s EXCEPT !.map[pid][v] = NoPage])
    ELSE Fail("BadAddress", s)

-----------------------------------------------------------------------------
(* System services: connections and the thread table *)

\* cid -> sidx in the caller's connection table; the set is empty on a miss.
sidx_from_cid(s, pid, cid) == {x \in Servers : x = cid /\ x \in s.conns[pid]}

server_sidx(sid) == {x \in Servers : x = sid}

\* Connection of pid to server sid, allocated on first use.
connect_to_server(s, pid, sid) ==
    IF sid \in Servers
    THEN Done(sid, [s EXCEPT !.conns[pid] = @ \cup {sid}])
    ELSE Fail("ServerNotFound", s)

server_cid(sidx) == sidx

Blocked == {"BlockedOnReceive", "BlockedOnReturn"}

thread_is_running(s, t) == t \in Threads /\ s.thr[t] = "Running"

RunningThreads(s) == {t \in Threads : s.thr[t] = "Running"}

ready_thread(s, t) ==
    IF t \in Threads /\ s.thr[t] \in Blocked
    THEN Done(0, [s EXCEPT !.thr[t] = "Ready"])
    ELSE Fail("ThreadNotAvailable", s)

\* Hosted: the thread runs (its process picks the answer up).  Baremetal: the
\* single CPU leaves whichever thread it was running and runs t.
switch_to_thread(s, t) ==
    IF t \in Threads /\ s.thr[t] \in {"Ready", "Running"}
    THEN Done(0, [s EXCEPT !.thr = [u \in Threads |->
                    IF u = t THEN "Running"
                    ELSE IF baremetal /\ s.thr[u] = "Running" THEN "Ready"
                    ELSE s.thr[u]]])
    ELSE Fail("ProcessNotFound", s)

switch_from_thread(s, t, why) ==
    IF thread_is_running(s, t)
    THEN Done(0, [s EXCEPT !.thr[t] = why])
    ELSE Fail("ProcessNotFound", s)

set_thread_result(s, t, r) ==
    IF t \in Threads
    THEN Done(0, [s EXCEPT !.result[t] = r])
    ELSE Fail("ProcessNotFound", s)

\* Baremetal: leave thread cur (resumable, or suspended for the reason why)
\* and run thread new.
activate_process_thread(s, cur, new, can_resume, why) ==
    IF new \in Threads /\ new # cur /\ s.thr[new] = "Ready"
    THEN Done(0, [s EXCEPT !.thr = [u \in Threads |->
                    IF u = new THEN "Running"
                    ELSE IF u = cur THEN (IF can_resume THEN "Ready" ELSE why)
                    ELSE s.thr[u]]])
    ELSE Fail("ProcessNotFound", s)

-----------------------------------------------------------------------------
(* Server endpoint *)

NoRecord == [kind |-> "None"]

NoBuf == [addr |-> 0, len |-> 0]

NeedsReply(msg) == is_blocking(msg) \/ IsMemory(msg)

\* The outstanding-sender record of a message; msg is the translated message.
\* forget chooses which of the two records of a moved region is kept.
WaitingRecord(pid, tid, msg, client_addr, forget) ==
    CASE msg.kind \in ScalarKinds ->
            [kind |-> "ScalarMessage", pid |-> pid, tid |-> tid, id |-> msg.id]
      [] msg.kind \in {"Borrow", "MutableBorrow"} ->
            [kind |-> "BorrowedMemory", pid |-> pid, tid |-> tid, id |-> msg.id,
             server_addr |-> msg.addr, client_addr |-> client_addr, len |-> msg.len]
      [] OTHER ->
            IF forget
            THEN [kind |-> "ForgetMemory", id |-> msg.id, addr |-> msg.addr, len |-> msg.len]
            ELSE [kind |-> "MovedMemory", id |-> msg.id]

FreeSlots(s, sidx) == {i \in Slots : s.outstanding[sidx][i] = NoRecord}

LowestSlot(s, sidx) == CHOOSE i \in FreeSlots(s, sidx) : \A j \in FreeSlots(s, sidx) : i <= j

remember_server_message(s, sidx, pid, tid, msg, client_addr, forget) ==
    IF FreeSlots(s, sidx) = {}
    THEN Fail("ServerQueueFull", s)
    ELSE LET i == LowestSlot(s, sidx)
         IN  Done(i, [s EXCEPT !.outstanding[sidx][i] =
                                  WaitingRecord(pid, tid, msg, client_addr, forget)])

\* Push onto the FIFO; a sender that needs a reply gets its sender record here.
queue_server_message(s, sidx, pid, tid, msg, client_addr, forget) ==
    IF Len(s.queue[sidx]) >= QueueCap
    THEN Fail("ServerQueueFull", s)
    ELSE IF ~NeedsReply(msg)
    THEN Done(0, [s EXCEPT !.queue[sidx] = Append(@, [idx |-> 0, body |-> msg])])
    ELSE LET r == remember_server_message(s, sidx, pid, tid, msg, client_addr, forget)
         IN  IF ~r.ok THEN Fail(r.err, s)
             ELSE Done(r.val, [r.s EXCEPT !.queue[sidx] = Append(@, [idx |-> r.val, body |-> msg])])

take_available_thread(s, sidx) ==
    IF s.parked[sidx] = <<>>
    THEN Fail("none", s)
    ELSE Done(Head(s.parked[sidx]), [s EXCEPT !.parked[sidx] = Tail(@)])

return_available_thread(s, sidx, tid) == [s EXCEPT !.parked[sidx] = <<tid>> \o @]

park_thread(s, sidx, tid) == [s EXCEPT !.parked[sidx] = Append(@, tid)]

Envelope(cid, idx, body) == [sender |-> [cid |-> cid, idx |-> idx], body |-> body]

take_next_message(s, sidx, cid) ==
    IF s.queue[sidx] = <<>>
    THEN Fail("none", s)
    ELSE LET e == Head(s.queue[sidx])
         IN  Done(Envelope(cid, e.idx, e.body), [s EXCEPT !.queue[sidx] = Tail(@)])

\* Remove and return the record of sender idx.  A memory record is given up
\* only for the server-side region it was made for.
take_waiting_message(s, sidx, idx, buf) ==
    IF idx \notin Slots
    THEN Done(NoRecord, s)
    ELSE LET rec == s.outstanding[sidx][idx]
         IN  IF /\ buf # NoBuf
                /\ \/ rec.kind = "BorrowedMemory" /\ (rec.server_addr # buf.addr \/ rec.len # buf.len)
                   \/ rec.kind = "ForgetMemory" /\ (rec.addr # buf.addr \/ rec.len # buf.len)
             THEN Fail("InternalError", s)
             ELSE Done(rec, [s EXCEPT !.outstanding[sidx][idx] = NoRecord])

-----------------------------------------------------------------------------
(* IPC transport: send_message *)

\* Variant: any process may act as the host.
not_host_never(server_pid, pid) == FALSE

\* if server.pid != pid { return Err(ServerNotFound) }
not_host(server_pid, pid) == server_pid # pid

\* r?; f(r.s): the next step runs on the state the previous one left.
Bind(r, F(_)) == IF r.ok THEN F(r.s) ELSE r

\* What a handler leaves: its return value, the kernel state, the thread
\* whose saved result takes the value (none when the caller is suspended),
\* and for a send the way the message went.
Out(val, s, to, path, idx) == [val |-> val, s |-> s, to |-> to, path |-> path, idx |-> idx]

translate_message(s, pid, server_pid, msg) ==
    CASE msg.kind = "Move" ->
            LET r == send_memory(s, pid, msg.addr, server_pid, msg.len)
            IN  IF r.ok THEN Done([msg EXCEPT !.addr = r.val], r.s) ELSE r
      [] msg.kind = "MutableBorrow" ->
            LET r == lend_memory(s, pid, msg.addr, server_pid, msg.len, TRUE)
            IN  IF r.ok THEN Done([msg EXCEPT !.addr = r.val], r.s) ELSE r
      [] msg.kind = "Borrow" ->
            LET r == lend_memory(s, pid, msg.addr, server_pid, msg.len, FALSE)
            IN  IF r.ok THEN Done([msg EXCEPT !.addr = r.val], r.s) ELSE r
      [] OTHER -> Done(msg, s)

\* Variant: a sender record for every message.
wants_sender_record_always(message) == TRUE

\* The sender record is made for a message that is_blocking().
wants_sender_record(message) == is_blocking(message)

\* The thread the rollback closures hand back to the parked list.
rollback_thread(thread, server_tid) == thread

\* if let Some(server_tid) = ...take_available_thread(): the message goes
\* straight to a parked receiver when there is one, else on the queue.
\* Variant: every message goes on the queue.
has_receiver_never(avail) == FALSE

has_receiver(avail) == avail.ok

\* The message that goes on the queue: the translated one.
queued_message(original, translated) == translated

\* The state a send fails with when the queue is full.
queue_full_state(before_translation, after_translation) == after_translation

send_direct(s1, pid, thread, sidx, server_tid, message, client_address, blocking, forget) ==
    LET caller == <<pid, thread>>
        server == <<ServerPid[sidx], server_tid>>
        rem == IF wants_sender_record(message)
               THEN remember_server_message(s1, sidx, pid, thread, message, client_address, forget)
               ELSE Done(0, s1)
        envelope == Envelope(server_cid(sidx), rem.val, message)
        rdy == ready_thread(rem.s, server)
        undo(s) == return_available_thread(s, sidx, rollback_thread(thread, server_tid))
    IN  IF ~rem.ok THEN Out(Err(rem.err), undo(s1), {caller}, "none", 0)
        ELSE IF ~rdy.ok THEN Out(Err(rdy.err), undo(rem.s), {caller}, "none", 0)
        ELSE IF blocking /\ baremetal
        THEN LET a == activate_process_thread(rdy.s, caller, server, ~blocking, "BlockedOnReturn")
             IN  IF a.ok THEN Out(MessageResult(envelope), a.s, {server}, "direct", rem.val)
                 ELSE Out(Err("ProcessNotFound"), a.s, {caller}, "none", 0)
        ELSE IF blocking
        THEN LET r == Bind(Bind(switch_from_thread(rdy.s, caller, "BlockedOnReturn"),
                                LAMBDA s : switch_to_thread(s, server)),
                           LAMBDA s : set_thread_result(s, server, MessageResult(envelope)))
             IN  IF r.ok THEN Out(BlockedProcess, r.s, {}, "direct", rem.val)
                 ELSE Out(Err(r.err), r.s, {caller}, "none", 0)
        ELSE IF baremetal
        THEN LET r == set_thread_result(rdy.s, server, MessageResult(envelope))
             IN  IF r.ok THEN Out(Ok, r.s, {caller}, "direct", rem.val)
                 ELSE Out(Err(r.err), r.s, {caller}, "none", 0)
        ELSE LET r == Bind(switch_to_thread(rdy.s, server),
                           LAMBDA s : set_thread_result(s, server, MessageResult(envelope)))
             IN  IF r.ok THEN Out(Ok, r.s, {caller}, "direct", rem.val)
                 ELSE Out(Err(r.err), r.s, {caller}, "none", 0)

send_queued(s0, s1, pid, thread, sidx, original, message, client_address, blocking, forget) ==
    LET caller == <<pid, thread>>
        q == queue_server_message(s1, sidx, pid, thread, queued_message(original, message),
                                  client_address, forget)
    IN  IF ~q.ok THEN Out(Err(q.err), queue_full_state(s0, s1), {caller}, "none", 0)
        ELSE IF blocking /\ baremetal
        THEN LET a == activate_process_thread([q.s EXCEPT !.sc = None], caller,
                                              <<Ppid[pid], 0>>, ~blocking, "BlockedOnReturn")
             IN  IF a.ok THEN Out(ResumeProcess, a.s, {}, "queue", q.val)
                 ELSE Out(Err("ProcessNotFound"), a.s, {caller}, "queue", q.val)
        ELSE IF blocking
        THEN LET r == switch_from_thread(q.s, caller, "BlockedOnReturn")
             IN  IF r.ok THEN Out(BlockedProcess, r.s, {}, "queue", q.val)
                 ELSE Out(Err(r.err), r.s, {caller}, "queue", q.val)
        ELSE Out(Ok, q.s, {caller}, "queue", q.val)

send_message(s0, pid, thread, cid, msg, forget) ==
    LET caller == <<pid, thread>>
        sx == sidx_from_cid(s0, pid, cid)
    IN  IF sx = {} THEN Out(Err("ServerNotFound"), s0, {caller}, "none", 0)
        ELSE
        LET sidx == CHOOSE x \in sx : TRUE
            server_pid == ServerPid[sidx]
            client_address == IF IsMemory(msg) THEN msg.addr ELSE 0
            blocking == is_blocking(msg)
            tr == translate_message(s0, pid, server_pid, msg)
            avail == take_available_thread(tr.s, sidx)
        IN  IF ~tr.ok THEN Out(Err(tr.err), s0, {caller}, "none", 0)
            ELSE IF has_receiver(avail)
            THEN send_direct(avail.s, pid, thread, sidx, avail.val, tr.val,
                             client_address, blocking, forget)
            ELSE send_queued(s0, tr.s, pid, thread, sidx, msg, tr.val,
                             client_address, blocking, forget)

-----------------------------------------------------------------------------
(* IPC transport: receive_message *)

\* Variant: the caller is suspended without being put on the parked list.
park_caller_skip(s, sidx, tid) == s

\* server.park_thread(tid)
park_caller(s, sidx, tid) == park_thread(s, sidx, tid)

\* take_next_message takes the head off the queue it returns it from.
\* Variant: the head is returned but stays on the queue.
after_receive_peek(before, after) == before

after_receive(before, after) == after

receive_message(s0, pid, tid, sid) ==
    LET caller == <<pid, tid>>
        c == connect_to_server(s0, pid, sid)
        sx == server_sidx(sid)
    IN  IF ~c.ok THEN Out(Err(c.err), s0, {caller}, "none", 0)
        ELSE IF sx = {} THEN Out(Err("ServerNotFound"), c.s, {caller}, "none", 0)
        ELSE
        LET sidx == CHOOSE x \in sx : TRUE
            next == take_next_message(c.s, sidx, c.val)
            p == park_caller(c.s, sidx, tid)
        IN  IF not_host(ServerPid[sidx], pid) THEN Out(Err("ServerNotFound"), c.s, {caller}, "none", 0)
            ELSE IF next.ok
            THEN Out(MessageResult(next.val), after_receive(c.s, next.s), {caller}, "queue", 0)
            ELSE IF baremetal
            THEN LET a == activate_process_thread([p EXCEPT !.sc = None], caller,
                                                  <<Ppid[pid], 0>>, FALSE, "BlockedOnReceive")
                 IN  IF a.ok THEN Out(ResumeProcess, a.s, {}, "park", 0)
                     ELSE Out(Err("ProcessNotFound"), a.s, {caller}, "park", 0)
            ELSE LET r == switch_from_thread(p, caller, "BlockedOnReceive")
                 IN  IF r.ok THEN Out(BlockedProcess, r.s, {}, "park", 0)
                     ELSE Out(Err(r.err), r.s, {caller}, "park", 0)

-----------------------------------------------------------------------------
(* IPC transport: return paths *)

\* Variant: the pages are taken from the client's address space.
return_from_client(pid, client_pid) == client_pid

\* The address space the lent pages are taken from: the caller's.
return_from_pid(pid, client_pid) == pid

\* Variant: the pages go back to the address they had in the server.
return_server_addr(server_addr, client_addr) == server_addr

\* The address the pages go back to in the client.
return_client_addr(server_addr, client_addr) == client_addr

\* Variant: the loop stops at the first page that fails.
remaining_until_error(r, n) == IF r.ok THEN n - 1 ELSE 0

\* The pages the loop still visits after a page: all that are left.
remaining(r, n) == n - 1

RECURSIVE unmap_range(_, _, _, _, _)
\* for addr in (virt..virt+size).step_by(PAGE_SIZE): every page is tried, the
\* first error is kept.
unmap_range(s, pid, v, n, res) ==
    IF n = 0 THEN [val |-> res, s |-> s]
    ELSE LET r == unmap_page(s, pid, v)
         IN  unmap_range(r.s, pid, v + 1, remaining(r, n),
                         IF ~r.ok /\ ~IsErr(res) THEN Err(r.err) ELSE res)

\* An address: the page it lies in and its low bits (virt & 0xfff).
Aligned(page) == [page |-> page, low |-> 0]

\* Variant: no alignment check.
base_misaligned_never(virt) == FALSE

\* virt & 0xfff != 0
base_misaligned(virt) == virt.low # 0

\* The pages (virt..virt+size).step_by(PAGE_SIZE) visits.
PagesIn(size) == size.pages + (IF size.low # 0 THEN 1 ELSE 0)

\* The bulk unmap of UnmapMemory and of a ForgetMemory record.
unmap_bulk(s, pid, virt, size) ==
    IF base_misaligned(virt) THEN [val |-> Err("BadAlignment"), s |-> s]
    ELSE unmap_range(s, pid, virt.page, PagesIn(size), Ok)

\* Ready the client, switch to it and set its result.
wake_client(s, client, res) ==
    Bind(Bind(ready_thread(s, client),
              LAMBDA x : switch_to_thread(x, client)),
         LAMBDA x : set_thread_result(x, client, res))

return_memory(s0, pid, tid, sender, buf) ==
    LET caller == <<pid, tid>>
        sx == sidx_from_cid(s0, pid, sender.cid)
    IN  IF sx = {} THEN Out(Err("ServerNotFound"), s0, {caller}, "none", 0)
        ELSE
        LET sidx == CHOOSE x \in sx : TRUE
            tw == take_waiting_message(s0, sidx, sender.idx, buf)
            rec == tw.val
        IN  IF not_host(ServerPid[sidx], pid) THEN Out(Err("ServerNotFound"), s0, {caller}, "none", 0)
            ELSE IF ~tw.ok THEN Out(Err(tw.err), tw.s, {caller}, "none", 0)
            ELSE CASE rec.kind = "BorrowedMemory" ->
                        LET client == <<rec.pid, rec.tid>>
                            r == Bind(mm_return_memory(tw.s, return_from_pid(pid, rec.pid),
                                          rec.server_addr, rec.pid,
                                          return_client_addr(rec.server_addr, rec.client_addr),
                                          rec.len),
                                      LAMBDA x : wake_client(x, client, Ok))
                        IN  IF r.ok THEN Out(Ok, r.s, {caller}, "reply", rec.id)
                            ELSE Out(Err(r.err), r.s, {caller}, "none", 0)
                   [] rec.kind = "MovedMemory" -> Out(Ok, tw.s, {caller}, "reply", rec.id)
                   [] rec.kind = "ForgetMemory" ->
                        LET u == unmap_bulk(tw.s, pid, Aligned(rec.addr),
                                            [pages |-> rec.len, low |-> 0])
                        IN  Out(u.val, u.s, {caller}, IF IsErr(u.val) THEN "none" ELSE "reply",
                                IF IsErr(u.val) THEN 0 ELSE rec.id)
                   [] rec.kind = "ScalarMessage" -> Out(Err("InternalError"), tw.s, {caller}, "none", 0)
                   [] OTHER -> Out(Err("ProcessNotFound"), tw.s, {caller}, "none", 0)

\* The body shared by return_scalar and return_scalar2.
scalar_reply(s0, pid, tid, sender, res) ==
    LET caller == <<pid, tid>>
        sx == sidx_from_cid(s0, pid, sender.cid)
    IN  IF sx = {} THEN Out(Err("ServerNotFound"), s0, {caller}, "none", 0)
        ELSE
        LET sidx == CHOOSE x \in sx : TRUE
            tw == take_waiting_message(s0, sidx, sender.idx, NoBuf)
            rec == tw.val
        IN  IF not_host(ServerPid[sidx], pid) THEN Out(Err("ServerNotFound"), s0, {caller}, "none", 0)
            ELSE IF ~tw.ok THEN Out(Err(tw.err), tw.s, {caller}, "none", 0)
            ELSE IF rec.kind = "ScalarMessage"
            THEN LET r == wake_client(tw.s, <<rec.pid, rec.tid>>, res)
                 IN  IF r.ok THEN Out(Ok, r.s, {caller}, "reply", rec.id)
                     ELSE Out(Err(r.err), r.s, {caller}, "none", 0)
            ELSE Out(Err("ProcessNotFound"), tw.s, {caller}, "none", 0)

\* Variant: the client is resumed with Ok instead of the scalar.
return_scalar_ok(s0, pid, tid, sender, arg) == scalar_reply(s0, pid, tid, sender, Ok)

return_scalar(s0, pid, tid, sender, arg) == scalar_reply(s0, pid, tid, sender, Scalar1(arg))

return_scalar2(s0, pid, tid, sender, arg1, arg2) ==
    scalar_reply(s0, pid, tid, sender, Scalar2(arg1, arg2))

-----------------------------------------------------------------------------
(* The dispatcher: one action per syscall *)

Apply(caller, out) ==
    /\ thr' = out.s.thr
    /\ result' = [t \in Threads |->
                     IF t \in out.to /\ t # caller THEN out.val
                     ELSE IF t = caller /\ out.s.result[t] = result[t] THEN None
                     ELSE out.s.result[t]]
    /\ queue' = out.s.queue
    /\ parked' = out.s.parked
    /\ outstanding' = out.s.outstanding
    /\ map' = out.s.map
    /\ conns' = out.s.conns
    /\ switchto_caller' = out.s.sc

Build == <<baremetal, overflow_checks>>

UserPids == {HostPid, ClientPid}

Callers(pids) == {t \in Threads : t[1] \in pids /\ thr[t] = "Running"}

SIDs == Servers

Tokens == [cid : Servers, idx : 0..MaxSlots]

ReplyArgs == {10}

TrySendMessage ==
    /\ ~panicked
    /\ nsent < MaxSends
    /\ \E t \in Callers({ClientPid}), cid \in Servers, msg \in Messages(nsent + 1) :
         \E forget \in (IF msg.kind = "Move" THEN BOOLEAN ELSE {FALSE}) :
            LET out == send_message(KState, t[1], t[2], cid, msg, forget)
            IN  /\ Apply(t, out)
                /\ nsent' = nsent + 1
                /\ accepted' = IF out.path = "queue" /\ ~IsErr(out.val)
                               THEN Append(accepted, msg.id) ELSE accepted
                /\ inflight' = IF ~IsErr(out.val) /\ NeedsReply(msg)
                               THEN inflight \cup {msg.id} ELSE inflight
                /\ UNCHANGED last
    /\ UNCHANGED <<Build, mapped, isr_return_pair, log_string, panicked, heapvars, delivered>>

ReceiveMessage ==
    /\ ~panicked
    /\ \E t \in Callers(UserPids), sid \in SIDs :
            LET out == receive_message(KState, t[1], t[2], sid)
            IN  /\ Apply(t, out)
                /\ delivered' = IF out.val.tag = "Message"
                                THEN Append(delivered, out.val.env.body.id) ELSE delivered
                /\ UNCHANGED last
    /\ UNCHANGED <<Build, mapped, isr_return_pair, log_string, panicked, heapvars, nsent, accepted, inflight>>

ReturnMemory ==
    /\ ~panicked
    /\ \E t \in Callers(UserPids), sender \in Tokens, buf \in Ranges :
            LET out == return_memory(KState, t[1], t[2], sender, buf)
            IN  /\ Apply(t, out)
                /\ inflight' = IF out.path = "reply" THEN inflight \ {out.idx} ELSE inflight
                /\ UNCHANGED last
    /\ UNCHANGED <<Build, mapped, isr_return_pair, log_string, panicked, heapvars, nsent, accepted, delivered>>

ReturnScalar1 ==
    /\ ~panicked
    /\ \E t \in Callers(UserPids), sender \in Tokens, arg \in ReplyArgs :
            LET out == return_scalar(KState, t[1], t[2], sender, arg)
            IN  /\ Apply(t, out)
                /\ inflight' = IF out.path = "reply" THEN inflight \ {out.idx} ELSE inflight
                /\ UNCHANGED last
    /\ UNCHANGED <<Build, mapped, isr_return_pair, log_string, panicked, heapvars, nsent, accepted, delivered>>

ReturnScalar2 ==
    /\ ~panicked
    /\ \E t \in Callers(UserPids), sender \in Tokens, arg1 \in ReplyArgs :
            LET out == return_scalar2(KState, t[1], t[2], sender, arg1, arg1 + 10)
            IN  /\ Apply(t, out)
                /\ inflight' = IF out.path = "reply" THEN inflight \ {out.idx} ELSE inflight
                /\ UNCHANGED last
    /\ UNCHANGED <<Build, mapped, isr_return_pair, log_string, panicked, heapvars, nsent, accepted, delivered>>

TryConnect ==
    /\ ~panicked
    /\ \E t \in Callers({ClientPid}), sid \in SIDs :
            LET c == connect_to_server(KState, t[1], sid)
                out == Out(IF c.ok THEN [tag |-> "ConnectionID", cid |-> c.val] ELSE Err(c.err),
                           c.s, {t}, "none", 0)
            IN  /\ Apply(t, out)
                /\ UNCHANGED last
    /\ UNCHANGED <<Build, mapped, isr_return_pair, log_string, panicked, heapvars, nsent, accepted, delivered, inflight>>

\* Variant: no assertion, the slot is written whatever it holds.
slot_is_none_always(slot) == TRUE

\* assert!(SWITCHTO_CALLER.is_none(), ..)
slot_is_none(slot) == slot = None

\* The kernel stops: assert!, expect.
KernelPanic == [tag |-> "Panic"]

Some(t) == [tag |-> "Some", pid |-> t[1], tid |-> t[2]]

\* The SwitchTo arm.  The assertion stops the kernel when the slot is taken.
switch_to(s, pid, tid, new) ==
    LET caller == <<pid, tid>>
        s1 == [s EXCEPT !.sc = Some(caller)]
        a == activate_process_thread(s1, caller, new, TRUE, "Ready")
    IN  IF ~slot_is_none(s.sc) THEN Out(KernelPanic, s, {}, "none", 0)
        ELSE IF a.ok THEN Out(ResumeProcess, a.s, {}, "none", 0)
        ELSE Out(Err(a.err), a.s, {caller}, "none", 0)

\* What the scheduling arms leave: a stopped kernel, or the state they return.
Resume(t, out) ==
    IF out.val = KernelPanic
    THEN /\ panicked' = TRUE
         /\ UNCHANGED ipcvars
    ELSE /\ Apply(t, out)
         /\ UNCHANGED <<panicked, nsent, accepted, delivered, inflight>>

\* SysCall::SwitchTo
SwitchTo ==
    /\ ~panicked
    /\ baremetal
    /\ \E t \in Callers(Procs), new \in Threads :
            Resume(t, switch_to(KState, t[1], t[2], new))
    /\ UNCHANGED <<Build, mapped, isr_return_pair, log_string, heapvars, last>>

\* The Yield arm.  A no-op when hosted; on baremetal the slot is taken and
\* the thread it named is activated.
yield_thread(s, pid, tid) ==
    LET caller == <<pid, tid>>
        parent == <<s.sc.pid, s.sc.tid>>
        a == activate_process_thread([s EXCEPT !.sc = None], caller, parent, TRUE, "Ready")
    IN  IF ~baremetal THEN Out(Ok, s, {caller}, "none", 0)
        ELSE IF s.sc = None THEN Out(KernelPanic, s, {}, "none", 0)
        ELSE IF a.ok THEN Out(ResumeProcess, a.s, {}, "none", 0)
        ELSE Out(Err("ProcessNotFound"), a.s, {caller}, "none", 0)

\* SysCall::Yield
Yield ==
    /\ ~panicked
    /\ \E t \in Callers(Procs) :
            Resume(t, yield_thread(KState, t[1], t[2]))
    /\ UNCHANGED <<Build, mapped, isr_return_pair, log_string, heapvars, last>>

-----------------------------------------------------------------------------
(* The dispatcher: UnmapMemory *)

\* The ranges UnmapMemory is called with: base and size, aligned or not.
UnmapRanges == [virt : [page : VPages, low : {0, 1}], size : [pages : 1..2, low : {0, 1}]]

\* The UnmapMemory arm, on the caller's address space.
unmap_memory(s, pid, tid, range) ==
    LET u == unmap_bulk(s, pid, range.virt, range.size)
    IN  Out(u.val, u.s, {<<pid, tid>>}, "none", 0)

\* SysCall::UnmapMemory
UnmapMemory ==
    /\ ~panicked
    /\ \E t \in Callers(UserPids), range \in UnmapRanges :
            Apply(t, unmap_memory(KState, t[1], t[2], range))
    /\ UNCHANGED <<Build, mapped, isr_return_pair, log_string, panicked, heapvars, last,
                   nsent, accepted, delivered, inflight>>

-----------------------------------------------------------------------------
(* The dispatcher: ReturnToParentI *)

\* The ReturnToParentI arm: both pairs are taken (expect), and the
\* switchto-caller becomes the pair the interrupt handler returns to.
return_to_parent(sc, isr) ==
    IF isr = None \/ sc = None
    THEN [val |-> KernelPanic, sc |-> sc, isr |-> isr]
    ELSE [val |-> ResumeProcess, sc |-> None, isr |-> sc]

\* SysCall::ReturnToParentI
ReturnToParentI ==
    /\ ~panicked
    /\ \E t \in Callers(Procs) :
          LET out == return_to_parent(switchto_caller, isr_return_pair)
          IN  /\ panicked' = (out.val = KernelPanic)
              /\ switchto_caller' = out.sc
              /\ isr_return_pair' = out.isr
    /\ UNCHANGED <<Build, mapped, log_string, heapvars, last, thr, result, queue, parked, outstanding,
                   map, conns, nsent, accepted, delivered, inflight>>

\* Delivery of an interrupt: the interrupted thread's (pid, tid) is stashed
\* in isr_return_pair while the handler runs.
Interrupt ==
    /\ ~panicked
    /\ baremetal
    /\ isr_return_pair = None
    /\ \E t \in Callers(Procs) : isr_return_pair' = Some(t)
    /\ UNCHANGED <<Build, mapped, log_string, panicked, ipcvars, heapvars, last>>

-----------------------------------------------------------------------------
(* The dispatcher: MapMemory *)

\* arch::mem::USER_AREA_END, as a page number.
UserAreaEnd == 3

\* The virtual pages of an address space that MapMemory is asked for.
MapPages == 1..(UserAreaEnd + 2)

\* Page uses: not mapped, reserved for lazy allocation, handed to the user.
NoMappings == [p \in Procs |-> [v \in MapPages |-> "Free"]]

\* virt: 0 for None, else the page the address lies in.
Virts == 0..(UserAreaEnd + 1)

\* size: whole pages plus the low bits (size & (PAGE_SIZE - 1)).
Sizes == [pages : 1..2, low : {0, 1}]

MapCallers == {InitPid, ClientPid}

\* map_range of the memory manager: the pages at virt, or the lowest free
\* run of pages when no address is asked for; a page in use cannot be taken.
map_range(m, pid, virt, n) ==
    LET fits(b) == \A v \in b..(b + n - 1) : v \in MapPages /\ m[pid][v] = "Free"
        bases == {b \in MapPages : fits(b)}
    IN  IF virt # 0
        THEN IF fits(virt) THEN [ok |-> TRUE, addr |-> virt]
             ELSE [ok |-> FALSE, err |-> "OutOfMemory"]
        ELSE IF bases = {} THEN [ok |-> FALSE, err |-> "OutOfMemory"]
             ELSE [ok |-> TRUE, addr |-> CHOOSE b \in bases : \A c \in bases : b <= c]

\* Variant: the address check applies to every caller.
beyond_user_area_all(pid, virt) == virt # 0 /\ virt >= UserAreaEnd

\* pid.get() != 1 && virt.map(|x| x.get() >= USER_AREA_END).unwrap_or(false)
beyond_user_area(pid, virt) == pid # InitPid /\ virt # 0 /\ virt >= UserAreaEnd

\* size.get() & (PAGE_SIZE - 1) != 0
size_misaligned(size) == size.low # 0

\* The MapMemory arm: its result and the page tables it leaves.
map_memory(m, pid, phys, virt, size) ==
    LET r == map_range(m, pid, virt, size.pages)
    IN  IF beyond_user_area(pid, virt)
        THEN [val |-> Err("BadAddress"), m |-> m]
        ELSE IF size_misaligned(size)
        THEN [val |-> Err("BadAlignment"), m |-> m]
        ELSE IF ~r.ok
        THEN [val |-> Err(r.err), m |-> m]
        ELSE [val |-> [tag |-> "MemoryRange", addr |-> r.addr, len |-> size.pages],
              m |-> [m EXCEPT ![pid] = [v \in MapPages |->
                        IF v \in r.addr..(r.addr + size.pages - 1)
                        THEN (IF phys THEN "User" ELSE "Reserved")
                        ELSE m[pid][v]]]]

MapMemory ==
    /\ ~panicked
    /\ \E pid \in MapCallers, phys \in BOOLEAN, virt \in Virts, size \in Sizes :
          mapped' = map_memory(mapped, pid, phys, virt, size).m
    /\ UNCHANGED <<Build, isr_return_pair, log_string, panicked, ipcvars, heapvars, last>>

-----------------------------------------------------------------------------
(* The log server: LogString (examples/log-server/src/log_string.rs) *)

\* Capacity of the message buffer, in bytes.
LogCap == 4

LogBytes == {0, 1, 2}

\* The strings handed to write_str, the empty one included.
LogStrings == UNION {[1..n -> LogBytes] : n \in 0..2}

\* xous::MemorySize::new: a size is a non-zero usize, so 0 gives None.
MemorySize_new(n) == IF n = 0 THEN None ELSE [tag |-> "Some", v |-> n]

\* The memory messages a LogString is made from: a buffer with any content
\* and a valid field that is absent or counts bytes of the buffer.
LogMessages == [buf : [1..LogCap -> LogBytes], valid : {MemorySize_new(n) : n \in 0..LogCap}]

\* No message is being written.
NoLogString == [raw_slice |-> <<>>, len |-> 0, msg_len |-> None]

\* LogString::from_message
from_message(message) ==
    LET starting_length == IF message.valid = None THEN 0 ELSE message.valid.v
    IN  [raw_slice |-> message.buf, len |-> starting_length, msg_len |-> message.valid]

\* The string view: the first len bytes of the buffer.
LogStr(l) == SubSeq(l.raw_slice, 1, l.len)

\* The bytes the loop stores before it ends or runs off the buffer.
StoredBytes(l, s) ==
    [i \in 1..Len(l.raw_slice) |->
        IF i > l.len /\ i <= l.len + Len(s) THEN s[i - l.len] ELSE l.raw_slice[i]]

\* LogString::write_str: indexing past the buffer panics, and so does the
\* unwrap of MemorySize::new(self.len) when it is None.
write_str(l, s) ==
    LET total == l.len + Len(s)
        size == MemorySize_new(total)
    IN  IF total > Len(l.raw_slice)
        THEN [val |-> KernelPanic,
              l |-> [l EXCEPT !.raw_slice = StoredBytes(l, s), !.len = Len(l.raw_slice)]]
        ELSE IF size = None
        THEN [val |-> KernelPanic, l |-> l]
        ELSE [val |-> Ok,
              l |-> [raw_slice |-> StoredBytes(l, s), len |-> total, msg_len |-> size]]

WriteStr ==
    /\ ~panicked
    /\ \E s \in LogStrings :
          LET out == write_str(log_string, s)
          IN  /\ log_string' = out.l
              /\ panicked' = (out.val = KernelPanic)
    /\ UNCHANGED <<Build, mapped, isr_return_pair, ipcvars, heapvars, last>>

-----------------------------------------------------------------------------
(* Initial state and specification of the IPC transport *)

ClientPage(v) == [frame |-> v, w |-> (v # 1), valid |-> TRUE]

InitMap == [p \in Procs |-> [v \in VPages |-> IF p = ClientPid THEN ClientPage(v) ELSE NoPage]]

InitThr ==
    [t \in Threads |->
        IF t[1] = HostPid /\ t[2] \in SpareTids THEN "Free"
        ELSE IF baremetal /\ t # <<InitPid, 0>> THEN "Ready"
        ELSE "Running"]

Init ==
    /\ baremetal \in BOOLEAN
    /\ overflow_checks = FALSE
    /\ panicked = FALSE
    /\ thr = InitThr
    /\ result = [t \in Threads |-> None]
    /\ queue = [s \in Servers |-> <<>>]
    /\ parked = [s \in Servers |-> <<>>]
    /\ outstanding = [s \in Servers |-> [i \in Slots |-> NoRecord]]
    /\ map = InitMap
    /\ conns = [p \in Procs |-> IF p = HostPid THEN Servers ELSE {}]
    /\ switchto_caller = None
    /\ heap_size = 0
    /\ heap_pages = {}
    /\ mapped = NoMappings
    /\ isr_return_pair = None
    /\ log_string = NoLogString
    /\ nsent = 0
    /\ accepted = <<>>
    /\ delivered = <<>>
    /\ inflight = {}
    /\ last = [op |-> "init", val |-> None]

Next ==
    \/ TrySendMessage
    \/ ReceiveMessage
    \/ ReturnMemory
    \/ ReturnScalar1
    \/ ReturnScalar2
    \/ TryConnect
    \/ SwitchTo
    \/ Yield

Spec == Init /\ [][Next]_vars

-----------------------------------------------------------------------------
(* The dispatcher: IncreaseHeap and DecreaseHeap *)

\* Number of pages a usize counts: 2^32 / PAGE_SIZE.
WordPages == 2^20

\* mem_heap_base and mem_heap_max of the process, in pages.
HeapBase == 16

HeapMax == 2

\* A delta: whole pages plus the low 12 bits (delta & 0xfff).
HugePages == WordPages - 1

Deltas == [pages : {0, 1, 2, HeapMax + 1, HugePages}, low : {0, 1}]

\* usize addition and subtraction: the value, and whether it overflowed.
add_usize(a, b) == [val |-> (a + b) % WordPages, over |-> a + b >= WordPages]

sub_usize(a, b) == [val |-> (a - b + WordPages) % WordPages, over |-> a < b]

\* Variant: no alignment check.
misaligned_never(delta) == FALSE

\* delta & 0xfff != 0
misaligned(delta) == delta.low # 0

\* The check both heap arms make before they change mem_heap_size.
heap_check(size, delta) == add_usize(size, delta).val > HeapMax

\* Reserve address space lazily; a page already in use cannot be reserved.
reserve_range(pages, start, n) ==
    IF n > HeapMax + 1 \/ \E v \in start..(start + n - 1) : v \in pages
    THEN [ok |-> FALSE, pages |-> pages]
    ELSE [ok |-> TRUE, pages |-> pages \cup (start..(start + n - 1))]

\* The pages (lo..hi).step_by(PAGE_SIZE) visits; all of them must unmap.
unmap_all(pages, lo, hi) ==
    IF lo >= hi THEN [ok |-> TRUE, pages |-> pages]
    ELSE IF hi - lo > HeapMax + 1 \/ \E v \in lo..(hi - 1) : v \notin pages
    THEN [ok |-> FALSE, pages |-> pages]
    ELSE [ok |-> TRUE, pages |-> pages \ (lo..(hi - 1))]

HeapPanic(op, delta) ==
    /\ panicked' = TRUE
    /\ last' = [op |-> op, delta |-> delta, val |-> [tag |-> "Panic"]]
    /\ UNCHANGED heapvars

HeapReturn(op, delta, val, size, pages) ==
    /\ heap_size' = size
    /\ heap_pages' = pages
    /\ last' = [op |-> op, delta |-> delta, val |-> val]
    /\ UNCHANGED panicked

IncreaseHeap ==
    /\ ~panicked
    /\ \E delta \in Deltas :
         LET sum == add_usize(heap_size, delta.pages)
             start == add_usize(HeapBase, heap_size)
             r == reserve_range(heap_pages, start.val, delta.pages)
         IN  IF misaligned(delta)
             THEN HeapReturn("IncreaseHeap", delta, Err("BadAlignment"), heap_size, heap_pages)
             ELSE IF overflow_checks /\ sum.over
             THEN HeapPanic("IncreaseHeap", delta)
             ELSE IF heap_check(heap_size, delta.pages)
             THEN HeapReturn("IncreaseHeap", delta, Err("OutOfMemory"), heap_size, heap_pages)
             ELSE IF overflow_checks /\ start.over
             THEN HeapPanic("IncreaseHeap", delta)
             ELSE IF ~r.ok
             THEN HeapReturn("IncreaseHeap", delta, Err("OutOfMemory"), sum.val, heap_pages)
             ELSE HeapReturn("IncreaseHeap", delta,
                             [tag |-> "MemoryRange", addr |-> start.val, len |-> delta.pages],
                             sum.val, r.pages)
    /\ UNCHANGED <<Build, mapped, isr_return_pair, log_string, ipcvars>>

DecreaseHeap ==
    /\ ~panicked
    /\ \E delta \in Deltas :
         LET sum == add_usize(heap_size, delta.pages)
             start == add_usize(HeapBase, heap_size)
             size == sub_usize(heap_size, delta.pages)
             lo == sub_usize(start.val, delta.pages)
             u == unmap_all(heap_pages, lo.val, start.val)
         IN  IF misaligned(delta)
             THEN HeapReturn("DecreaseHeap", delta, Err("BadAlignment"), heap_size, heap_pages)
             ELSE IF overflow_checks /\ sum.over
             THEN HeapPanic("DecreaseHeap", delta)
             ELSE IF heap_check(heap_size, delta.pages)
             THEN HeapReturn("DecreaseHeap", delta, Err("OutOfMemory"), heap_size, heap_pages)
             ELSE IF overflow_checks /\ (start.over \/ size.over \/ lo.over)
             THEN HeapPanic("DecreaseHeap", delta)
             ELSE IF ~u.ok
             THEN HeapPanic("DecreaseHeap", delta)
             ELSE HeapReturn("DecreaseHeap", delta, Ok, size.val, u.pages)
    /\ UNCHANGED <<Build, mapped, isr_return_pair, log_string, ipcvars>>

HeapInit ==
    /\ baremetal = FALSE
    /\ overflow_checks \in BOOLEAN
    /\ panicked = FALSE
    /\ thr = InitThr
    /\ result = [t \in Threads |-> None]
    /\ queue = [s \in Servers |-> <<>>]
    /\ parked = [s \in Servers |-> <<>>]
    /\ outstanding = [s \in Servers |-> [i \in Slots |-> NoRecord]]
    /\ map = InitMap
    /\ conns = [p \in Procs |-> IF p = HostPid THEN Servers ELSE {}]
    /\ switchto_caller = None
    /\ heap_size = 0
    /\ heap_pages \in {{}, {HeapBase - 1}}
    /\ mapped = NoMappings
    /\ isr_return_pair = None
    /\ log_string = NoLogString
    /\ nsent = 0
    /\ accepted = <<>>
    /\ delivered = <<>>
    /\ inflight = {}
    /\ last = [op |-> "init", val |-> None]

HeapNext == IncreaseHeap \/ DecreaseHeap

HeapSpec == HeapInit /\ [][HeapNext]_vars

-----------------------------------------------------------------------------
(* A host with two threads: the transport under longer runs of sends *)

MaxRelaySends == 5

\* The sends of this specification: the client gives its upper page away
\* with its first message and sends a BlockingScalar ever after.
RelayMessages(id) ==
    IF id = 1 THEN {MemoryMsg("Move", id, Cardinality(VPages), 1)}
    ELSE {ScalarMsg("BlockingScalar", id)}

RelaySend ==
    /\ ~panicked
    /\ nsent < MaxRelaySends
    /\ \E t \in Callers({ClientPid}), cid \in Servers, msg \in RelayMessages(nsent + 1) :
            LET out == send_message(KState, t[1], t[2], cid, msg, FALSE)
            IN  /\ Apply(t, out)
                /\ nsent' = nsent + 1
                /\ accepted' = IF out.path = "queue" /\ ~IsErr(out.val)
                               THEN Append(accepted, msg.id) ELSE accepted
                /\ inflight' = IF ~IsErr(out.val) /\ NeedsReply(msg)
                               THEN inflight \cup {msg.id} ELSE inflight
                /\ UNCHANGED last
    /\ UNCHANGED <<Build, mapped, isr_return_pair, log_string, panicked, heapvars, delivered>>

\* The regions of the messages of this specification: one page.
RelayRanges == {r \in Ranges : r.len = 1}

\* ReturnMemory and ReturnScalar1 as the threads of the host issue them.
HostReturnMemory ==
    /\ ~panicked
    /\ \E t \in Callers({HostPid}), sender \in Tokens, buf \in RelayRanges :
            LET out == return_memory(KState, t[1], t[2], sender, buf)
            IN  /\ Apply(t, out)
                /\ inflight' = IF out.path = "reply" THEN inflight \ {out.idx} ELSE inflight
                /\ UNCHANGED last
    /\ UNCHANGED <<Build, mapped, isr_return_pair, log_string, panicked, heapvars, nsent, accepted, delivered>>

HostReturnScalar1 ==
    /\ ~panicked
    /\ \E t \in Callers({HostPid}), sender \in Tokens, arg \in ReplyArgs :
            LET out == return_scalar(KState, t[1], t[2], sender, arg)
            IN  /\ Apply(t, out)
                /\ inflight' = IF out.path = "reply" THEN inflight \ {out.idx} ELSE inflight
                /\ UNCHANGED last
    /\ UNCHANGED <<Build, mapped, isr_return_pair, log_string, panicked, heapvars, nsent, accepted, delivered>>

\* Hosted; the host has created its second thread and the client is connected.
TwoHostInit ==
    /\ baremetal = FALSE
    /\ overflow_checks = FALSE
    /\ panicked = FALSE
    /\ thr = [t \in Threads |-> "Running"]
    /\ result = [t \in Threads |-> None]
    /\ queue = [s \in Servers |-> <<>>]
    /\ parked = [s \in Servers |-> <<>>]
    /\ outstanding = [s \in Servers |-> [i \in Slots |-> NoRecord]]
    /\ map = InitMap
    /\ conns = [p \in Procs |-> IF p \in UserPids THEN Servers ELSE {}]
    /\ switchto_caller = None
    /\ heap_size = 0
    /\ heap_pages = {}
    /\ mapped = NoMappings
    /\ isr_return_pair = None
    /\ log_string = NoLogString
    /\ nsent = 0
    /\ accepted = <<>>
    /\ delivered = <<>>
    /\ inflight = {}
    /\ last = [op |-> "init", val |-> None]

TwoHostNext ==
    \/ RelaySend
    \/ ReceiveMessage
    \/ HostReturnMemory
    \/ HostReturnScalar1

TwoHostSpec == TwoHostInit /\ [][TwoHostNext]_vars

-----------------------------------------------------------------------------
(* Scheduling calls and interrupts *)

SchedNext ==
    \/ SwitchTo
    \/ Yield
    \/ Interrupt
    \/ ReturnToParentI
    \/ TryConnect
    \/ TrySendMessage
    \/ ReceiveMessage

SchedSpec == Init /\ [][SchedNext]_vars

-----------------------------------------------------------------------------
(* Unmapping: the transport with UnmapMemory *)

UnmapInit == Init /\ ~baremetal

UnmapNext ==
    \/ TryConnect
    \/ TrySendMessage
    \/ ReceiveMessage
    \/ ReturnMemory
    \/ UnmapMemory

UnmapSpec == UnmapInit /\ [][UnmapNext]_vars

-----------------------------------------------------------------------------
(* The log server writing into a message *)

LogInit ==
    /\ baremetal = FALSE
    /\ overflow_checks = FALSE
    /\ panicked = FALSE
    /\ thr = InitThr
    /\ result = [t \in Threads |-> None]
    /\ queue = [s \in Servers |-> <<>>]
    /\ parked = [s \in Servers |-> <<>>]
    /\ outstanding = [s \in Servers |-> [i \in Slots |-> NoRecord]]
    /\ map = InitMap
    /\ conns = [p \in Procs |-> IF p = HostPid THEN Servers ELSE {}]
    /\ switchto_caller = None
    /\ heap_size = 0
    /\ heap_pages = {}
    /\ mapped = NoMappings
    /\ isr_return_pair = None
    /\ log_string \in {from_message(m) : m \in LogMessages}
    /\ nsent = 0
    /\ accepted = <<>>
    /\ delivered = <<>>
    /\ inflight = {}
    /\ last = [op |-> "init", val |-> None]

LogNext == WriteStr

LogSpec == LogInit /\ [][LogNext]_vars

MapNext == MapMemory

MapInit == Init /\ ~baremetal

MapSpec == MapInit /\ [][MapNext]_vars

-----------------------------------------------------------------------------
(* Claims about the message transport *)

Token(s, i) == [cid |-> s, idx |-> i]

HostCallers == Callers({HostPid})

ClientCallers == Callers({ClientPid})

Runnable == {"Ready", "Running"}

\* Every send a running client thread can issue in the current state.
SendInputs ==
    {in \in [t : ClientCallers, cid : Servers, msg : Messages(nsent + 1), forget : BOOLEAN] :
        in.forget => in.msg.kind = "Move"}

SendOf(in) == send_message(KState, in.t[1], in.t[2], in.cid, in.msg, in.forget)

Connected(in) == sidx_from_cid(KState, in.t[1], in.cid) # {}

\* The parts of the kernel state a send works on.
Footprint(s) == <<s.map, s.queue, s.parked, s.outstanding, s.thr>>

\* C1: for every server endpoint the message queue and the parked-receiver
\* list are never both non-empty: a non-empty queue implies an empty parked
\* list, after any sequence of sends and receives, failed ones included.
C1_QueueOrParked == \A s \in Servers : queue[s] # <<>> => parked[s] = <<>>

\* A message was handed to a parked receiver, and now one waits on the queue.
C1_Witness ==
    /\ \E s \in Servers : queue[s] # <<>>
    /\ \E t \in Threads : t[1] = HostPid /\ result[t].tag = "Message"

QueueIds(s) == [i \in 1..Len(queue[s]) |-> queue[s][i].body.id]

\* C2: the messages accepted onto the queue are handed out by ReceiveMessage
\* in the order they were sent, each exactly once: at every moment the
\* messages delivered so far followed by the ones still queued are exactly
\* the accepted ones in send order (none lost, duplicated or reordered).
C2_FifoDelivery == \A s \in Servers : delivered \o QueueIds(s) = accepted

\* Two queued messages have been handed out and a third one is queued.
C2_Witness == Len(delivered) >= 2 /\ \E s \in Servers : queue[s] # <<>>

RecordsOf(id) ==
    {x \in Servers \X Slots : outstanding[x[1]][x[2]] # NoRecord /\ outstanding[x[1]][x[2]].id = id}

HasClient(rec) == rec.kind \in {"ScalarMessage", "BorrowedMemory"}

ClientOf(rec) == <<rec.pid, rec.tid>>

\* C3: slot conservation.  Every accepted send that needs a reply and has not
\* been replied to has exactly one entry in the outstanding-sender table, and
\* when it is a blocking send its client thread is suspended awaiting the
\* reply; conversely every entry that names a client thread names a thread
\* that is blocked awaiting a reply, and no two entries name the same thread.
C3_SlotConservation ==
    /\ \A id \in inflight :
          /\ Cardinality(RecordsOf(id)) = 1
          /\ \A x \in RecordsOf(id) :
                LET rec == outstanding[x[1]][x[2]]
                IN  HasClient(rec) => thr[ClientOf(rec)] = "BlockedOnReturn"
    /\ \A s \in Servers, i \in Slots :
          LET rec == outstanding[s][i]
          IN  HasClient(rec) =>
                 /\ thr[ClientOf(rec)] = "BlockedOnReturn"
                 /\ \A j \in Slots \ {i} :
                       HasClient(outstanding[s][j]) => ClientOf(outstanding[s][j]) # ClientOf(rec)

\* C4: a send that returns an error leaves the page mappings, the queue, the
\* parked-receiver list, the outstanding-sender table and all thread states
\* as they were before the call.
C4_SendFailureAtomic ==
    \A in \in SendInputs :
        LET out == SendOf(in)
        IN  IsErr(out.val) => Footprint(out.s) = Footprint(KState)

NonBlocking(msg) == ~is_blocking(msg)

\* C5: with no parked receiver, a non-blocking send is accepted (Ok) while
\* fewer than QueueCap messages are queued and is refused with
\* ServerQueueFull once QueueCap are; a refused send that carries memory
\* leaves the pages mapped in the client where they were and not mapped in
\* the server.
C5_QueueFull ==
    \A in \in SendInputs :
        LET out == SendOf(in)
            s == in.cid
        IN  (Connected(in) /\ parked[s] = <<>>) =>
               /\ (in.msg.kind = "Scalar" /\ Len(queue[s]) < QueueCap) => out.val = Ok
               /\ (NonBlocking(in.msg) /\ Len(queue[s]) = QueueCap)
                     => out.val = Err("ServerQueueFull")
               /\ (out.val = Err("ServerQueueFull") /\ IsMemory(in.msg))
                     => out.s.map = map

\* C6: when the head of the parked list is a host thread waiting in
\* ReceiveMessage and a client sends a non-blocking Scalar, the client gets
\* Ok and keeps running, the parked thread leaves the parked list, is
\* runnable and has the result Message(envelope) with the same Scalar as
\* body and sender_idx 0, and the outstanding-sender table is untouched.
C6_ScalarRendezvous ==
    \A in \in SendInputs :
        LET out == SendOf(in)
            s == in.cid
            T == <<ServerPid[s], Head(parked[s])>>
        IN  (/\ in.msg.kind = "Scalar"
             /\ Connected(in)
             /\ parked[s] # <<>>
             /\ T \in Threads
             /\ thr[T] = "BlockedOnReceive") =>
               /\ out.val = Ok
               /\ out.s.thr[in.t] = "Running"
               /\ out.s.parked[s] = Tail(parked[s])
               /\ out.s.thr[T] \in Runnable
               /\ out.s.result[T] = MessageResult(Envelope(server_cid(s), 0, in.msg))
               /\ out.s.outstanding = outstanding

\* A host thread that was parked holds a Scalar envelope with sender_idx 0.
C6_Witness ==
    \E T \in Threads :
        /\ T[1] = HostPid
        /\ result[T].tag = "Message"
        /\ result[T].env.body.kind = "Scalar"
        /\ result[T].env.sender.idx = 0
        /\ thr[T] \in Runnable
        /\ \A s \in Servers : \A k \in 1..Len(parked[s]) : parked[s][k] # T[2]

Woken(out, s, i, c, res) ==
    /\ out.val = Ok
    /\ out.s.thr[c] \in Runnable
    /\ out.s.result[c] = res
    /\ out.s.outstanding[s][i] = NoRecord

\* A return of the host on the record of a suspended scalar sender.
ScalarReturnWakes ==
    \A t \in HostCallers, s \in Servers, i \in Slots, a \in ReplyArgs :
        LET rec == outstanding[s][i]
        IN  (rec.kind = "ScalarMessage" /\ thr[ClientOf(rec)] = "BlockedOnReturn") =>
               /\ Woken(return_scalar(KState, t[1], t[2], Token(s, i), a),
                        s, i, ClientOf(rec), Scalar1(a))
               /\ Woken(return_scalar2(KState, t[1], t[2], Token(s, i), a, a + 10),
                        s, i, ClientOf(rec), Scalar2(a, a + 10))

\* A suspended scalar sender leaves BlockedOnReturn only in a step that takes
\* a sender record naming it.
StaysSuspended ==
    \A c \in Threads :
        (/\ thr[c] = "BlockedOnReturn"
         /\ \E s \in Servers, i \in Slots :
               outstanding[s][i].kind = "ScalarMessage" /\ ClientOf(outstanding[s][i]) = c
         /\ thr'[c] # "BlockedOnReturn") =>
            \E s \in Servers, i \in Slots :
               /\ HasClient(outstanding[s][i])
               /\ ClientOf(outstanding[s][i]) = c
               /\ outstanding'[s][i] = NoRecord

C8_BorrowRoundTrip ==
    \A t \in HostCallers, s \in Servers, i \in Slots :
        LET rec == outstanding[s][i]
        IN  (rec.kind = "BorrowedMemory" /\ thr[ClientOf(rec)] = "BlockedOnReturn") =>
               LET out == return_memory(KState, t[1], t[2], Token(s, i),
                                        [addr |-> rec.server_addr, len |-> rec.len])
               IN  /\ out.val = Ok
                   /\ out.s.thr[ClientOf(rec)] \in Runnable
                   /\ out.s.result[ClientOf(rec)] = Ok
                   /\ \A v \in PagesOf(rec.client_addr, rec.len) :
                         out.s.map[rec.pid][v] = InitMap[rec.pid][v]
                   /\ \A v \in PagesOf(rec.server_addr, rec.len) :
                         out.s.map[t[1]][v] = NoPage

\* A client resumed with Ok after a loan: its pages are back, the host has none.
C8_Witness ==
    \E c \in Threads :
        /\ c[1] = ClientPid
        /\ result[c] = Ok
        /\ thr[c] \in Runnable
        /\ map[ClientPid] = InitMap[ClientPid]
        /\ \A v \in VPages : map[HostPid][v] = NoPage

WritableHolders(f) ==
    {x \in Procs \X VPages : /\ map[x[1]][x[2]].frame = f
                             /\ map[x[1]][x[2]].valid
                             /\ map[x[1]][x[2]].w}

\* C9: no page is mapped writable in more than one address space at the same
\* time, in every state reached by sends, receives and returns, failed ones
\* included.
C9_MemoryExclusive == \A f \in VPages : Cardinality(WritableHolders(f)) <= 1

\* The host holds a writable page that the client lent and has not got back.
C9_Witness ==
    \E v \in VPages, u \in VPages :
        /\ map[HostPid][v].valid
        /\ map[HostPid][v].w
        /\ map[ClientPid][u].frame = map[HostPid][v].frame
        /\ ~map[ClientPid][u].valid

-----------------------------------------------------------------------------
(* Claims about the heap *)

HeapCallSucceeded ==
    /\ last.op \in {"IncreaseHeap", "DecreaseHeap"}
    /\ last.val.tag \in {"Ok", "MemoryRange"}

\* C10: whenever IncreaseHeap or DecreaseHeap has returned successfully,
\* 0 <= heap_size <= heap_max as machine words (heap_size has not wrapped
\* below zero, also when DecreaseHeap is given a delta above heap_size).
C10_HeapWithinBounds == HeapCallSucceeded => (0 <= heap_size /\ heap_size <= HeapMax)


\* The step is a heap call with a delta that is not a multiple of the page size.
MisalignedHeapCall ==
    /\ last'.op \in {"IncreaseHeap", "DecreaseHeap"}
    /\ last'.delta.low # 0

\* C11: IncreaseHeap and DecreaseHeap with a delta that is not a multiple of
\* the page size return BadAlignment and leave heap_size and the mapped
\* pages unchanged.
C11_MisalignedHeap ==
    [][MisalignedHeapCall =>
          /\ last'.val = Err("BadAlignment")
          /\ heap_size' = heap_size
          /\ heap_pages' = heap_pages
          /\ ~panicked']_vars

\* A misaligned DecreaseHeap was refused on a heap that holds pages.
C11_Witness ==
    /\ last.op = "DecreaseHeap"
    /\ last.delta.low # 0
    /\ last.val = Err("BadAlignment")
    /\ heap_size > 0
    /\ heap_pages # {}


-----------------------------------------------------------------------------
(* Claims about the host-only calls *)

\* Running threads of processes that do not host server s.
Strangers(s) == {t \in Callers(Procs) : t[1] # ServerPid[s]}

\* What a refused host-only call leaves alone.
Untouched(out) ==
    /\ out.val = Err("ServerNotFound")
    /\ out.s.queue = queue
    /\ out.s.parked = parked
    /\ out.s.outstanding = outstanding
    /\ out.s.thr = thr
    /\ out.s.result = result

\* C12: ReceiveMessage, ReturnMemory, ReturnScalar1 and ReturnScalar2 issued
\* by a process that is not the server's host return ServerNotFound; no
\* message is dequeued, no thread is parked, no outstanding-sender record is
\* removed and no blocked client is woken.
C12_HostOnly ==
    \A s \in Servers : \A t \in Strangers(s) :
        /\ Untouched(receive_message(KState, t[1], t[2], s))
        /\ \A i \in 0..MaxSlots :
              /\ \A buf \in Ranges : Untouched(return_memory(KState, t[1], t[2], Token(s, i), buf))
              /\ \A a \in ReplyArgs :
                    /\ Untouched(return_scalar(KState, t[1], t[2], Token(s, i), a))
                    /\ Untouched(return_scalar2(KState, t[1], t[2], Token(s, i), a, a + 10))

\* A connected client is running while a message is queued and a sender
\* awaits a reply: its ReceiveMessage and ReturnScalar1 are refused.
C12_Witness ==
    \E s \in Servers : \E t \in Strangers(s) : \E i \in Slots :
        /\ s \in conns[t[1]]
        /\ queue[s] # <<>>
        /\ outstanding[s][i].kind = "ScalarMessage"
        /\ thr[ClientOf(outstanding[s][i])] = "BlockedOnReturn"
        /\ receive_message(KState, t[1], t[2], s).val = Err("ServerNotFound")
        /\ return_scalar(KState, t[1], t[2], Token(s, i), 10).val = Err("ServerNotFound")


\* The results the syscall ABI lists for the return calls.
AbiReturnScalar == {Ok, Err("ServerNotFound"), Err("InternalError")}

AbiReturnMemory == AbiReturnScalar \cup {Err("BadAlignment")}

\* C13: for every sender token and every kind of outstanding record,
\* ReturnScalar1 and ReturnScalar2 return one of Ok, ServerNotFound and
\* InternalError, and ReturnMemory returns one of Ok, ServerNotFound,
\* BadAlignment and InternalError.
C13_AbiResults ==
    \A t \in Callers(UserPids), sender \in Tokens :
        /\ \A a \in ReplyArgs :
              /\ return_scalar(KState, t[1], t[2], sender, a).val \in AbiReturnScalar
              /\ return_scalar2(KState, t[1], t[2], sender, a, a + 10).val \in AbiReturnScalar
        /\ \A buf \in Ranges :
              return_memory(KState, t[1], t[2], sender, buf).val \in AbiReturnMemory


-----------------------------------------------------------------------------
(* Claims about the switchto-caller slot *)

\* The slot is written only when it is empty.
SlotNotOverwritten ==
    (switchto_caller # None /\ switchto_caller' # switchto_caller) => switchto_caller' = None

\* A SwitchTo on an occupied slot stops at the assertion and leaves the slot.
SwitchToAsserts ==
    (SwitchTo /\ switchto_caller # None) => (panicked' /\ switchto_caller' = switchto_caller)

\* C14: on baremetal the switchto-caller slot holds at most one (pid, tid):
\* it is written only when it is empty, and a SwitchTo issued while it is
\* occupied fails the dispatcher's assertion instead of overwriting it.
C14_SingleSlot == [][SlotNotOverwritten /\ SwitchToAsserts]_vars

\* The assertion has stopped the kernel with the recorded caller still in the slot.
C14_Witness == baremetal /\ panicked /\ switchto_caller # None


\* C15: a host-only call rejected because the caller is not the server's
\* host (ServerNotFound) leaves the whole kernel state unchanged: page
\* mappings, connection tables, message queues, parked-receiver lists,
\* outstanding-sender tables, thread states and saved results.
C15_RejectedCallNoEffect ==
    \A s \in Servers : \A t \in Strangers(s) :
        LET rcv == receive_message(KState, t[1], t[2], s)
        IN  /\ rcv.val = Err("ServerNotFound") => rcv.s = KState
            /\ \A i \in 0..MaxSlots, a \in ReplyArgs :
                  LET ret == return_scalar(KState, t[1], t[2], Token(s, i), a)
                  IN  ret.val = Err("ServerNotFound") => ret.s = KState


-----------------------------------------------------------------------------
(* Claims about MapMemory *)

MapInputs == [pid : MapCallers, phys : BOOLEAN, virt : Virts, size : Sizes]

MapOf(in) == map_memory(mapped, in.pid, in.phys, in.virt, in.size)

Rejected(out, e) == out.val = Err(e) /\ out.m = mapped

\* C16 as stated: a size that is not a multiple of the page size is rejected
\* with BadAlignment for every caller, an address beyond USER_AREA_END is
\* rejected with BadAddress for every caller but PID 1, and neither
\* rejection maps a page.
C16_MapMemoryRejects ==
    \A in \in MapInputs :
        /\ in.size.low # 0 => Rejected(MapOf(in), "BadAlignment")
        /\ (in.pid # InitPid /\ in.virt > UserAreaEnd) => Rejected(MapOf(in), "BadAddress")
        /\ in.pid = InitPid => MapOf(in).val # Err("BadAddress")

\* C16 amended: the address check comes first.  A caller other than PID 1
\* asking for an address at or beyond USER_AREA_END gets BadAddress whatever
\* the size; in every other case a size that is not a multiple of the page
\* size gets BadAlignment; PID 1 never gets BadAddress from the address
\* check; neither rejection maps a page.
C16_MapMemoryRejectsInOrder ==
    \A in \in MapInputs :
        LET outside == in.pid # InitPid /\ in.virt # 0 /\ in.virt >= UserAreaEnd
        IN  /\ outside => Rejected(MapOf(in), "BadAddress")
            /\ (~outside /\ in.size.low # 0) => Rejected(MapOf(in), "BadAlignment")
            /\ in.pid = InitPid => MapOf(in).val # Err("BadAddress")

\* With pages already mapped: PID 1 can still map beyond the user area, a
\* misaligned size is refused, and another caller is refused the address.
C16_Witness ==
    /\ \E v \in MapPages : mapped[InitPid][v] # "Free" /\ v >= UserAreaEnd
    /\ \E v \in MapPages : mapped[ClientPid][v] # "Free"
    /\ \E in \in MapInputs :
          /\ in.pid = InitPid /\ in.virt > UserAreaEnd
          /\ MapOf(in).val.tag = "MemoryRange"
    /\ \E in \in MapInputs :
          /\ in.pid = InitPid /\ in.virt > UserAreaEnd /\ in.size.low # 0
          /\ Rejected(MapOf(in), "BadAlignment")
    /\ \E in \in MapInputs :
          /\ in.pid = ClientPid /\ in.virt > UserAreaEnd /\ in.size.low = 0
          /\ Rejected(MapOf(in), "BadAddress")


-----------------------------------------------------------------------------
(* Claims about the direct hand-off *)

\* C17: when a send found a parked receiver and a later step failed (the
\* sender slot could not be allocated or the receiver could not be made
\* Ready), the parked-receiver list is what it was before the send (the
\* receiver taken is back, no other thread id is added) and no sender slot
\* stays allocated for the send.
C17_RollbackRestores ==
    \A in \in SendInputs :
        LET out == SendOf(in)
            s == in.cid
        IN  (Connected(in) /\ parked[s] # <<>> /\ IsErr(out.val)) =>
               /\ out.s.parked = parked
               /\ out.s.outstanding = outstanding

\* C18: a message handed directly to a parked receiver carries a freshly
\* allocated non-zero sender_idx whenever it needs a reply (BlockingScalar,
\* Borrow, MutableBorrow and Move), and sender_idx 0 only when it is a bare
\* non-blocking Scalar.
C18_DirectSenderIdx ==
    \A in \in SendInputs :
        LET out == SendOf(in)
            s == in.cid
        IN  (out.path = "direct" /\ ~IsErr(out.val)) =>
               /\ NeedsReply(in.msg) =>
                     /\ out.idx \in Slots
                     /\ outstanding[s][out.idx] = NoRecord
                     /\ out.s.outstanding[s][out.idx] # NoRecord
               /\ out.idx = 0 <=> in.msg.kind = "Scalar"


-----------------------------------------------------------------------------
(* Claims about ReceiveMessage *)

\* C19: ReceiveMessage issued by the host.  With a non-empty queue it
\* returns Message(head envelope), removes exactly the head and neither parks
\* nor suspends the caller; with an empty queue the caller is appended to the
\* parked-receiver list and stops running, and the call yields BlockedProcess
\* on hosted and ResumeProcess, with the parent process running, on baremetal.
C19_ReceiveByHost ==
    \A s \in Servers : \A t \in Callers({ServerPid[s]}) :
        LET out == receive_message(KState, t[1], t[2], s)
            parent == <<Ppid[t[1]], 0>>
        IN  IF queue[s] # <<>>
            THEN /\ out.val = MessageResult(Envelope(s, Head(queue[s]).idx, Head(queue[s]).body))
                 /\ out.s.queue[s] = Tail(queue[s])
                 /\ out.s.parked = parked
                 /\ out.s.thr = thr
            ELSE /\ out.s.parked[s] = Append(parked[s], t[2])
                 /\ out.s.thr[t] = "BlockedOnReceive"
                 /\ out.s.queue = queue
                 /\ out.val = (IF baremetal THEN ResumeProcess ELSE BlockedProcess)
                 /\ baremetal => out.s.thr[parent] = "Running"

\* The host has taken a message from the queue and then parked on the empty queue.
C19_Witness ==
    /\ delivered # <<>>
    /\ \E s \in Servers : \E t \in Threads :
          /\ t[1] = ServerPid[s]
          /\ queue[s] = <<>>
          /\ parked[s] = <<t[2]>>
          /\ thr[t] = "BlockedOnReceive"


\* The places of thread t on the parked lists of the servers its process hosts.
ParkedAt(t) ==
    {x \in Servers \X (1..(Cardinality(Threads) + MaxSends)) :
        /\ x[2] <= Len(parked[x[1]])
        /\ ServerPid[x[1]] = t[1]
        /\ parked[x[1]][x[2]] = t[2]}

\* C20: a thread is blocked waiting in ReceiveMessage if and only if it
\* appears exactly once, on the parked-receiver list of exactly one server,
\* a server its own process hosts; every entry of a parked list is such a
\* thread.  This holds also after sends that fail and roll back.
C20_BlockedIffParked ==
    /\ \A t \in Threads : thr[t] = "BlockedOnReceive" <=> Cardinality(ParkedAt(t)) = 1
    /\ \A s \in Servers : \A k \in 1..Len(parked[s]) :
          /\ <<ServerPid[s], parked[s][k]>> \in Threads
          /\ thr[<<ServerPid[s], parked[s][k]>>] = "BlockedOnReceive"



-----------------------------------------------------------------------------
(* Claims about the replies *)

\* The entries of the outstanding-sender tables that name client thread c.
RecordsNaming(c) ==
    {x \in Servers \X Slots :
        HasClient(outstanding[x[1]][x[2]]) /\ ClientOf(outstanding[x[1]][x[2]]) = c}

\* The entry of the send that suspended c: the latest send of c awaiting a reply.
SuspendedBy(c, x) ==
    /\ x \in RecordsNaming(c)
    /\ \A y \in RecordsNaming(c) : outstanding[y[1]][y[2]].id <= outstanding[x[1]][x[2]].id

\* The step is a return call of host thread t naming token (s, i).
ReturnStep(t, s, i) ==
    \/ \E a \in ReplyArgs :
          \/ thr' = return_scalar(KState, t[1], t[2], Token(s, i), a).s.thr
          \/ thr' = return_scalar2(KState, t[1], t[2], Token(s, i), a, a + 10).s.thr
    \/ \E buf \in Ranges : thr' = return_memory(KState, t[1], t[2], Token(s, i), buf).s.thr

\* A suspended client leaves BlockedOnReturn only in a return call of the
\* host that names the token of the send that suspended it and takes its entry.
WokenOnlyByReturn ==
    \A c \in Threads :
        (thr[c] = "BlockedOnReturn" /\ thr'[c] # "BlockedOnReturn") =>
            /\ ReturnScalar1 \/ ReturnScalar2 \/ ReturnMemory
            /\ thr'[c] \in Runnable
            /\ \E t \in HostCallers, x \in Servers \X Slots :
                  /\ SuspendedBy(c, x)
                  /\ outstanding'[x[1]][x[2]] = NoRecord
                  /\ ReturnStep(t, x[1], x[2])

\* A return naming a token whose entry has been taken: an error, and every
\* thread keeps its state and its result.
SecondReturnRefused ==
    \A t \in HostCallers, s \in Servers, i \in Slots :
        outstanding[s][i] = NoRecord =>
            /\ \A a \in ReplyArgs :
                  LET r1 == return_scalar(KState, t[1], t[2], Token(s, i), a)
                      r2 == return_scalar2(KState, t[1], t[2], Token(s, i), a, a + 10)
                  IN  /\ IsErr(r1.val) /\ r1.s.thr = thr /\ r1.s.result = result
                      /\ IsErr(r2.val) /\ r2.s.thr = thr /\ r2.s.result = result
            /\ \A buf \in Ranges :
                  LET rm == return_memory(KState, t[1], t[2], Token(s, i), buf)
                  IN  IsErr(rm.val) /\ rm.s.thr = thr /\ rm.s.result = result

\* C21: a client thread suspended by a blocking send is made runnable only by
\* a ReturnScalar1, ReturnScalar2 or ReturnMemory call of the server's host
\* naming that send's token, and at most once per send: a return naming a
\* token whose entry has already been taken returns an error and changes no
\* thread's state or result.
C21_WokenOncePerSend == []SecondReturnRefused /\ [][WokenOnlyByReturn]_vars



MemoryRecords == {"BorrowedMemory", "MovedMemory", "ForgetMemory"}

\* A refused return: an error, no thread woken, the entry of slot i kept.
RefusedKeeping(out, s, i) ==
    /\ IsErr(out.val)
    /\ out.s.thr = thr
    /\ out.s.result = result
    /\ out.s.outstanding[s][i] = outstanding[s][i]

\* C22: a type-mismatched return (ReturnScalar1 or ReturnScalar2 naming a
\* sender whose entry is a memory entry, ReturnMemory naming a scalar sender)
\* returns an error, wakes no thread and leaves the outstanding-sender entry
\* in place, so that a later return of the right type still releases the
\* client.
C22_MismatchKeepsRecord ==
    \A t \in HostCallers, s \in Servers, i \in Slots :
        LET rec == outstanding[s][i]
        IN  /\ rec.kind \in MemoryRecords =>
                  \A a \in ReplyArgs :
                     /\ RefusedKeeping(return_scalar(KState, t[1], t[2], Token(s, i), a), s, i)
                     /\ RefusedKeeping(return_scalar2(KState, t[1], t[2], Token(s, i), a, a + 10), s, i)
            /\ rec.kind = "ScalarMessage" =>
                  \A buf \in Ranges :
                     RefusedKeeping(return_memory(KState, t[1], t[2], Token(s, i), buf), s, i)



-----------------------------------------------------------------------------
(* Claims about Yield, ReturnToParentI and SwitchTo *)

\* The thread the switchto-caller slot names: the caller of the latest SwitchTo.
SwitchToCaller == <<switchto_caller.pid, switchto_caller.tid>>

\* Control is with thread p and with no other thread.
ControlWith(s, p) == \A u \in Threads : s.thr[u] = "Running" <=> u = p

\* C23: on baremetal Yield and ReturnToParentI consume the switchto-caller
\* slot: each leaves it empty and hands control to exactly the (pid, tid)
\* that issued the latest SwitchTo (Yield activates that thread,
\* ReturnToParentI installs it as the ISR return pair) and returns
\* ResumeProcess; on hosted Yield returns Ok and changes no state.  Yield is
\* taken by a thread other than the one the slot names, so that the thread
\* to activate is never the caller itself.
C23_SlotConsumed ==
    \A t \in Callers(Procs) :
        LET y == yield_thread(KState, t[1], t[2])
            r == return_to_parent(switchto_caller, isr_return_pair)
        IN  /\ ~baremetal => (y.val = Ok /\ y.s = KState)
            /\ (baremetal /\ switchto_caller # None /\ t # SwitchToCaller) =>
                  /\ y.val = ResumeProcess
                  /\ y.s.sc = None
                  /\ ControlWith(y.s, SwitchToCaller)
            /\ (baremetal /\ switchto_caller # None /\ isr_return_pair # None) =>
                  /\ r.val = ResumeProcess
                  /\ r.sc = None
                  /\ r.isr = switchto_caller



\* C24: when SwitchTo returns an error because the target cannot be
\* activated, the switchto-caller slot is empty afterwards, as it was before
\* the call, and the same caller's next SwitchTo does not fail the
\* single-occupancy assertion.
C24_FailedSwitchToClearsSlot ==
    \A t \in Callers(Procs), new \in Threads :
        LET out == switch_to(KState, t[1], t[2], new)
        IN  (baremetal /\ switchto_caller = None /\ IsErr(out.val)) =>
               /\ out.s.sc = None
               /\ \A again \in Threads : switch_to(out.s, t[1], t[2], again).val # KernelPanic



-----------------------------------------------------------------------------
(* Claims about bulk unmapping *)

\* The pages of pid that a bulk unmap of n pages from page v cannot unmap.
FailingPages(pid, v, n) == {p \in PagesOf(v, n) : ~Mapped(map, pid, p)}

FirstOf(pages) == CHOOSE p \in pages : \A q \in pages : p <= q

\* Every page of the range was tried: none is mapped any more, the pages
\* outside the range are as they were, and the result is Ok when no page
\* failed and the error of the first failing page otherwise.
UnmappedAll(val, after, pid, v, n) ==
    /\ \A p \in PagesOf(v, n) : ~Mapped(after.map, pid, p)
    /\ \A q \in Procs, p \in VPages :
          (q # pid \/ p \notin PagesOf(v, n)) => after.map[q][p] = map[q][p]
    /\ FailingPages(pid, v, n) = {} => val = Ok
    /\ FailingPages(pid, v, n) # {} =>
          val = unmap_page(KState, pid, FirstOf(FailingPages(pid, v, n))).val

\* C25: bulk unmapping (UnmapMemory, and ReturnMemory on a ForgetMemory
\* record) with a page-aligned base tries to unmap every page of the range
\* even when some page fails, and returns Ok if none failed or else the
\* error of the first page that failed; with a base that is not page-aligned
\* it returns BadAlignment and unmaps no page.
C25_BulkUnmap ==
    /\ \A t \in Callers(UserPids), range \in UnmapRanges :
          LET out == unmap_memory(KState, t[1], t[2], range)
          IN  IF range.virt.low = 0
              THEN UnmappedAll(out.val, out.s, t[1], range.virt.page, PagesIn(range.size))
              ELSE out.val = Err("BadAlignment") /\ out.s.map = map
    /\ \A t \in HostCallers, s \in Servers, i \in Slots :
          LET rec == outstanding[s][i]
          IN  rec.kind = "ForgetMemory" =>
                 LET out == return_memory(KState, t[1], t[2], Token(s, i),
                                          [addr |-> rec.addr, len |-> rec.len])
                 IN  UnmappedAll(out.val, out.s, t[1], rec.addr, rec.len)

\* The host has unmapped the first of two pages moved to it for good: the
\* bulk unmap of the record meets a page that fails before a page that is
\* mapped.
C25_Witness ==
    /\ \E s \in Servers, i \in Slots :
          /\ outstanding[s][i].kind = "ForgetMemory"
          /\ outstanding[s][i].len > 1
          /\ ~Mapped(map, HostPid, outstanding[s][i].addr)
          /\ Mapped(map, HostPid, outstanding[s][i].addr + 1)
          /\ HostCallers # {}



-----------------------------------------------------------------------------
(* Claims about LogString *)

\* C26: write_str(s) on a LogString of length L over a buffer of capacity at
\* least L + |s| returns Ok, leaves bytes [0, L) unchanged, stores the bytes
\* of s at [L, L + |s|) and sets the message's valid field to L + |s|, for
\* every s, the empty string included; successive writes concatenate and
\* valid always equals the number of meaningful bytes.
C26_WriteStrAppends ==
    \A s \in LogStrings :
        LET L == log_string.len
            out == write_str(log_string, s)
        IN  L + Len(s) <= Len(log_string.raw_slice) =>
               /\ out.val = Ok
               /\ LogStr(out.l) = LogStr(log_string) \o s
               /\ out.l.len = L + Len(s)
               /\ out.l.msg_len = [tag |-> "Some", v |-> L + Len(s)]

====
